---- MODULE Spec2Model ----
(***************************************************************************)
(* petra: a filesystem-backed reverse HTTP cache with a dogpile lock.      *)
(* The model follows src/index.js: the Cache-Control TTL parser, the       *)
(* FileLocker, Petra.prototype.fetch / _fetchFromFilesystem /              *)
(* _fetchFromUpstream, Petra.prototype.purge and purgeStale.  Every Node   *)
(* callback (one turn of the event loop) is one action.                    *)
(***************************************************************************)
EXTENDS Integers, Sequences, FiniteSets, TLC

(***************************************************************************)
(* Bounds of the model.                                                    *)
(***************************************************************************)
NOps == 2          \* operations (fetch / purge / purger events) issued in a run
MaxTicks == 1      \* clock ticks of TickMs milliseconds in a run
MaxHeaderLen == 4  \* tokens of a Cache-Control header value (SpecTtl)
MaxMinimumTtl == 3 \* largest configured minimumTtl, in seconds (SpecTtl)

TickMs == 1000     \* one clock tick, in milliseconds
StartMs == 1000    \* wall clock at construction, in milliseconds

OpIds == 1..(NOps + 1)   \* SpecWide issues one operation more than Spec
Keys == {"ka", "kb"}   \* canonical filenames (fingerprints) of the URLs used

(***************************************************************************)
(* Cache-Control header values.  A header value is a sequence of tokens;   *)
(* no concatenation of tokens creates an occurrence of 'no-cache',         *)
(* 'private', 's-maxage=' or 'max-age=' that is not itself a token, so     *)
(* substring search and regular-expression match on the string are search  *)
(* and match on the token sequence.  Absent is a header that was not sent  *)
(* (typeof !== 'string').                                                  *)
(***************************************************************************)
Digits == {"0", "1", "2"}
Atoms == {"s-maxage=", "max-age=", "no-cache", "private", "x"} \cup Digits
Absent == <<"undefined">>

DigitVal(d) == CASE d = "0" -> 0 [] d = "1" -> 1 [] d = "2" -> 2

IsString(h) == h # Absent

\* String.prototype.indexOf(tok) === -1
IndexOfIsMinus1(h, tok) == \A i \in 1..Len(h) : h[i] # tok

\* the positions where /kw([0-9]+)/ can match: kw followed by at least one digit
MatchPositions(h, kw) ==
    {i \in 1..Len(h) : h[i] = kw /\ i + 1 <= Len(h) /\ h[i + 1] \in Digits}

Min(S) == CHOOSE x \in S : \A y \in S : x <= y
Max2(a, b) == IF a >= b THEN a ELSE b

\* the greedy capture group ([0-9]+) starting at position i
RECURSIVE DigitRun(_, _)
DigitRun(h, i) ==
    IF i <= Len(h) /\ h[i] \in Digits THEN <<h[i]>> \o DigitRun(h, i + 1) ELSE <<>>

\* parseInt(digits, 10)
RECURSIVE ParseInt10(_)
ParseInt10(ds) ==
    IF ds = <<>> THEN 0
    ELSE 10 * ParseInt10(SubSeq(ds, 1, Len(ds) - 1)) + DigitVal(ds[Len(ds)])

\* the first capture of String.prototype.match(/kw([0-9]+)/), leftmost match
Capture(h, kw) == DigitRun(h, Min(MatchPositions(h, kw)) + 1)

\* the parser without the 'private' test
ttlIgnoringPrivate(h) ==
    IF IsString(h) /\ IndexOfIsMinus1(h, "no-cache")
    THEN IF MatchPositions(h, "s-maxage=") # {}
         THEN ParseInt10(Capture(h, "s-maxage="))
         ELSE IF MatchPositions(h, "max-age=") # {}
              THEN ParseInt10(Capture(h, "max-age="))
              ELSE 0
    ELSE 0

\* the parser trying max-age before s-maxage
ttlPreferringMaxAge(h) ==
    IF IsString(h) /\ IndexOfIsMinus1(h, "no-cache") /\ IndexOfIsMinus1(h, "private")
    THEN IF MatchPositions(h, "max-age=") # {}
         THEN ParseInt10(Capture(h, "max-age="))
         ELSE IF MatchPositions(h, "s-maxage=") # {}
              THEN ParseInt10(Capture(h, "s-maxage="))
              ELSE 0
    ELSE 0

ttlFromCacheControlHeader(h) ==
    IF IsString(h) /\ IndexOfIsMinus1(h, "no-cache") /\ IndexOfIsMinus1(h, "private")
    THEN IF MatchPositions(h, "s-maxage=") # {}
         THEN ParseInt10(Capture(h, "s-maxage="))
         ELSE IF MatchPositions(h, "max-age=") # {}
              THEN ParseInt10(Capture(h, "max-age="))
              ELSE 0
    ELSE 0

\* Math.min in place of Math.max
EffectiveTtlMin(minTtl, h) ==
    IF minTtl <= ttlFromCacheControlHeader(h) THEN minTtl ELSE ttlFromCacheControlHeader(h)

\* Math.max(this.minimumTtl, ttlFromCacheControlHeader(res.headers['cache-control']))
EffectiveTtl(minTtl, h) == Max2(minTtl, ttlFromCacheControlHeader(h))

\* the TTL added as milliseconds
ExpiryInSeconds(atime, ttl) == atime + ttl

\* mtime = new Date(atime.getTime() + ttl * 1000)
ExpiryOf(atime, ttl) == atime + ttl * 1000


(***************************************************************************)
(* State.                                                                  *)
(***************************************************************************)
VARIABLES
    now,             \* Date.now(), in milliseconds
    minimumTtl,      \* this.minimumTtl, in seconds
    filterMedia,     \* this.mediaTypes.length > 0
    responseTimeout, \* this.responseTimeout, in milliseconds
    urls,            \* the canonical filenames the host's URLs map to
    opLimit,         \* how many operations the host and the purger issue
    seed,            \* the file found at "ka" at construction
    directory,       \* the cache directory at construction and what the constructor did
    lockedFiles,     \* locker.lockedFiles: key -> lock entry
    files,           \* the file at each canonical path
    parts,           \* the file at each {filename}.part path
    ops,             \* the operations issued so far and where each stands
    upstream,        \* per key, the number of upstream GETs issued so far
    last,            \* the arguments of the latest call of a caller's done
    history,         \* which kinds of events the run has seen (history variable)
    tHeader,         \* SpecTtl: the header value handed to the parser
    tTtl,            \* SpecTtl: what the parser and Math.max returned
    lockOrder,       \* SpecLocker: per key, the callers in the order of their lock calls
    grantOrder,      \* SpecLocker: per key, the callers in the order their proceed ran
    pStat,           \* SpecProbe: what fs.stat hands to its callback
    pOut             \* SpecProbe: where the probe stands and what it reported

vars == <<now, minimumTtl, filterMedia, responseTimeout, urls, opLimit, seed, directory,
          lockedFiles, files, parts, ops, upstream, last, history, tHeader, tTtl,
          lockOrder, grantOrder, pStat, pOut>>
config == <<minimumTtl, filterMedia, responseTimeout, urls, opLimit, seed, directory>>
ttlVars == <<tHeader, tTtl>>
lockerVars == <<lockOrder, grantOrder>>
probeVars == <<pStat, pOut>>

\* header values the modelled upstream answers with
ResponseHeaders == { Absent, <<"max-age=", "2">> }

\* the configurations of the constructed instance: minimumTtl (seconds),
\* whether mediaTypes is non-empty, responseTimeout (milliseconds)
Configs ==
    { [minimumTtl |-> 0, filterMedia |-> FALSE, responseTimeout |-> 0],
      [minimumTtl |-> 1, filterMedia |-> TRUE, responseTimeout |-> TickMs] }

Statuses == {200, 404, 500}

\* this.mediaTypes
MediaTypes == IF filterMedia THEN {"image/png"} ELSE {}

\* the Content-Type values the modelled upstream answers with
ContentTypes == {"image/png", "text/html"}

\* err.code of the errors simple-get hands to its callback ("nocode": none)
TransportErrors == {"ECONNREFUSED", "ETIMEDOUT", "ESOCKETTIMEDOUT", "ECONNRESET", "nocode"}

\* the response handed to get's callback (NoRes: none yet)
NoRes == [status |-> 0, ctype |-> "none"]

NoFile == [exists |-> FALSE, body |-> "none", atime |-> 0, mtime |-> 0, hdr |-> <<>>, lib |-> FALSE]
NoLock == [held |-> FALSE, owner |-> 0, onRelease |-> <<>>]
IdleOp == [kind |-> "none", key |-> "none", pc |-> "idle", probe |-> "none",
           hdr |-> <<>>, body |-> "none", ws |-> "none", timer |-> 0, pend |-> <<>>,
           calls |-> 0, out |-> "none", atime |-> 0, mtime |-> 0, pre |-> NoFile,
           res |-> NoRes, after |-> "none"]
NoTtl == [parsed |-> -1, ttl |-> -1, atime |-> -1, mtime |-> -1]
NoStat == [err |-> "none", isFile |-> FALSE, size |-> 0, atime |-> 0, mtime |-> 0]
NoCall == [via |-> "none", err |-> FALSE, code |-> 0, msg |-> <<>>, filename |-> "none",
           atime |-> 0, mtime |-> 0, hdr |-> <<>>, lib |-> FALSE]

\* files a test or an earlier run left in the cache directory at construction
StaleSeed == [exists |-> TRUE, body |-> "full", atime |-> 0, mtime |-> 0,
              hdr |-> <<>>, lib |-> FALSE]
FreshSeed == [exists |-> TRUE, body |-> "full", atime |-> StartMs,
              mtime |-> StartMs + TickMs, hdr |-> <<>>, lib |-> FALSE]
SeedFile(s) == CASE s = "none" -> NoFile [] s = "stale" -> StaleSeed [] s = "fresh" -> FreshSeed

(***************************************************************************)
(* FileLocker.  owner is not a field of the code's entry: it records which *)
(* operation's proceed the table invoked last (the logical holder).        *)
(***************************************************************************)
\* what proceed() of an operation starts: fs.stat for fetch, fs.unlink for purge
\* and the purger; a caller of the locker as such is then holding the key
StartPc(kind) ==
    CASE kind = "fetch" -> "stat" [] kind = "caller" -> "holding" [] OTHER -> "unlinking"

\* lock() that puts a waiter at the front of the queue (unshift for push)
LockTableUnshift(lf, o, k) ==
    IF lf[k].held
    THEN [lf EXCEPT ![k].onRelease = <<o>> \o @]
    ELSE [lf EXCEPT ![k] = [held |-> TRUE, owner |-> o, onRelease |-> <<>>]]

\* FileLocker.prototype.lock: the table after lock(k, proceed) by operation o
LockTable(lf, o, k) ==
    IF lf[k].held
    THEN [lf EXCEPT ![k].onRelease = Append(@, o)]
    ELSE [lf EXCEPT ![k] = [held |-> TRUE, owner |-> o, onRelease |-> <<>>]]

\* lock() that runs proceed whether or not the key is held
LockPcNoWait(lf, k, kind) == StartPc(kind)

\* FileLocker.prototype.lock: where operation o stands after lock(k, proceed)
LockPc(lf, k, kind) == IF lf[k].held THEN "queued" ELSE StartPc(kind)

\* unlock() that leaves the entry in place
UnlockTableKeep(lf, k) == lf

\* FileLocker.prototype.unlock: the table after unlock(k)
UnlockTable(lf, k) ==
    IF lf[k].held
    THEN IF Len(lf[k].onRelease) > 0
         THEN [lf EXCEPT ![k].onRelease = Tail(@), ![k].owner = Head(lf[k].onRelease)]
         ELSE [lf EXCEPT ![k] = NoLock]
    ELSE lf

\* unlock() that shifts the queue and does not call what it shifted
UnlockOpsNoCall(os, lf, k) == os

\* FileLocker.prototype.unlock: onRelease.shift()() runs the head waiter's proceed
UnlockOps(os, lf, k) ==
    IF lf[k].held /\ Len(lf[k].onRelease) > 0
    THEN [os EXCEPT ![Head(lf[k].onRelease)].pc = StartPc(os[Head(lf[k].onRelease)].kind)]
    ELSE os

\* the operations os2 left by an unlock made on os, where the fetch whose
\* proceed the unlock invoked records, until its probe ends, how the
\* unlocking holder ended (history field after)
HandedOver(os2, os, how) ==
    [p \in OpIds |-> IF os[p].pc = "queued" /\ os2[p].pc = "stat"
                     THEN [os2[p] EXCEPT !.after = how] ELSE os2[p]]

(***************************************************************************)
(* The filesystem: one inode per path; a write stream keeps its inode      *)
(* when the path is unlinked or renamed (ws: where the inode now lives).   *)
(***************************************************************************)
MoveFds(os, k, from, to) ==
    [p \in OpIds |-> IF os[p].key = k /\ os[p].ws = from
                     THEN [os[p] EXCEPT !.ws = to] ELSE os[p]]

\* fs.unlink(partialContentFilename)
UnlinkPartFds(os, k) == MoveFds(os, k, "part", "gone")
\* fs.unlink(filename)
UnlinkFileFds(os, k) == MoveFds(os, k, "canon", "gone")
\* fs.rename(partialContentFilename, filename)
RenameFds(os, k) == MoveFds(MoveFds(os, k, "canon", "gone"), k, "part", "canon")

\* an unlink that removes nothing (a wrong path)
UnlinkedNothing(fs, k) == fs

\* the directory after fs.unlink of the path of key k
Unlinked(fs, k) == [fs EXCEPT ![k] = NoFile]

\* the size in bytes that stands for a body
SizeOf(body) == CASE body = "full" -> 2 [] body = "partial" -> 1 [] OTHER -> 0

\* the fs.Stats of a file of the model (every one is a regular file)
StatsOf(f) ==
    [err |-> IF f.exists THEN "none" ELSE "ENOENT", isFile |-> f.exists,
     size |-> SizeOf(f.body), atime |-> f.atime, mtime |-> f.mtime]

\* the validity test with an entry valid up to and including its mtime
HitTestInclusive(st, t) == st.isFile /\ st.size > 0 /\ st.mtime >= t

\* stats.isFile() && stats.size > 0 && stats.mtime.getTime() > Date.now()
HitTest(st, t) == st.isFile /\ st.size > 0 /\ st.mtime > t

\* the validity test without the expiry comparison
IsHitNoExpiry(f, t) == f.exists /\ f.body # "empty"

\* the validity test of _fetchFromFilesystem on the file at the path
IsHit(f, t) == f.exists /\ HitTest(StatsOf(f), t)

(***************************************************************************)
(* The constructor.  The cache directory as found: "rw" (exists, readable  *)
(* and writable), "ro" (exists, not writable), "missing" (absent under a   *)
(* writable parent), "orphan" (absent, and it cannot be created).          *)
(***************************************************************************)
DirectoryStates == {"rw", "ro", "missing", "orphan"}

\* try { fs.mkdirSync(this.cacheDirectory, '0755') } catch (err) {}
MkdirSync(d) == IF d = "missing" THEN "rw" ELSE d

\* fs.accessSync(this.cacheDirectory, R_OK | W_OK) throws
AccessSyncThrows(d) == d # "rw"

\* new Petra(options) on a cache directory found in state d
Constructed(d) ==
    [found |-> d, after |-> MkdirSync(d), threw |-> AccessSyncThrows(MkdirSync(d))]

\* the files a directory found in state d can hold
SeedsOf(d) == IF d \in {"missing", "orphan"} THEN {"none"} ELSE {"none", "stale", "fresh"}

(***************************************************************************)
(* Initial state: after new Petra(options), with an empty lock table.      *)
(***************************************************************************)
InitWith(limit) ==
    /\ now = StartMs
    /\ \E c \in Configs : /\ minimumTtl = c.minimumTtl
                          /\ filterMedia = c.filterMedia
                          /\ responseTimeout = c.responseTimeout
    /\ urls = {"ka"}
    /\ opLimit = limit
    /\ \E d \in DirectoryStates : directory = Constructed(d)
    /\ seed \in SeedsOf(directory.found)
    /\ lockedFiles = [k \in Keys |-> NoLock]
    /\ files = [k \in Keys |-> IF directory.found \in {"missing", "orphan"} THEN NoFile
                               ELSE IF k = "ka" THEN SeedFile(seed) ELSE FreshSeed]
    /\ parts = [k \in Keys |-> NoFile]
    /\ ops = [o \in OpIds |-> IdleOp]
    /\ upstream = [k \in Keys |-> 0]
    /\ last = NoCall
    /\ history = {}
    /\ tHeader = Absent
    /\ tTtl = NoTtl
    /\ lockOrder = [k \in Keys |-> <<>>]
    /\ grantOrder = [k \in Keys |-> <<>>]
    /\ pStat = NoStat
    /\ pOut = "none"

Init == InitWith(NOps)

(***************************************************************************)
(* Callbacks into the caller.                                              *)
(***************************************************************************)
\* onError(err): fs.unlink(partialContentFilename, ...) is submitted with err;
\* the response's header and body are not read again
OnError(op, err) ==
    [op EXCEPT !.pend = Append(@, err), !.hdr = <<>>, !.body = "none",
               !.probe = "none", !.atime = 0, !.mtime = 0]

\* fetch's success callbacks: locker.unlock(filename), done(null, filename, ...)
DeliverOk(op) ==
    [IdleOp EXCEPT !.kind = op.kind, !.key = op.key, !.pc = "done", !.out = "ok",
                   !.calls = op.calls + 1, !.pend = op.pend]

\* done(null, filename, mtime, atime)
OkCallSwapped(via, k, atime, mtime, hdr, lib) ==
    [via |-> via, err |-> FALSE, code |-> 0, msg |-> <<>>, filename |-> k,
     atime |-> mtime, mtime |-> atime, hdr |-> hdr, lib |-> lib]

\* the arguments of done(null, filename, atime, mtime)
OkCall(via, k, atime, mtime, hdr, lib) ==
    [via |-> via, err |-> FALSE, code |-> 0, msg |-> <<>>, filename |-> k,
     atime |-> atime, mtime |-> mtime, hdr |-> hdr, lib |-> lib]

\* fetch's upstream-error callback: done(err), locker.unlock(filename)
DeliverErr(op) ==
    [op EXCEPT !.out = "err", !.calls = @ + 1, !.pend = Tail(@), !.pre = NoFile,
               !.res = NoRes]

\* errorWithCode(message, code); code 0: an Error without a numeric code
ErrorWithCode(msg, code) == [code |-> code, msg |-> msg]

\* err.message = `Upstream ${url} failed: ${err.message}` (the URL named by its key)
Prefixed(k, msg) == <<"Upstream", k, "failed:">> \o msg

\* the arguments of done(err)
ErrCall(k, e) ==
    [NoCall EXCEPT !.via = "error", !.err = TRUE, !.code = e.code, !.msg = Prefixed(k, e.msg)]

\* the process runs: no uncaught exception has ended it; the calls and
\* callbacks of an exited process never run
Alive == "thrown" \notin history

\* an operation needs the instance the constructor returned
Issued(o) ==
    /\ Alive
    /\ ~directory.threw
    /\ ops[o].pc = "idle"
    /\ o <= opLimit
    /\ \A p \in OpIds : p < o => ops[p].pc # "idle"

\* an operation that waits while any key at all is locked (one lock for all URLs)
NewOpAnyKey(kind, k) ==
    [IdleOp EXCEPT !.kind = kind, !.key = k,
                   !.pc = IF \E k2 \in Keys : lockedFiles[k2].held
                          THEN "queued" ELSE StartPc(kind)]

\* the operation as locker.lock(filename, ...) leaves it
NewOp(kind, k) == [IdleOp EXCEPT !.kind = kind, !.key = k,
                                 !.pc = LockPc(lockedFiles, k, kind)]

\* the probe reported a miss: _fetchFromUpstream issues get({url, ...});
\* pre records the file at the canonical path at that moment (history field)
StartUpstream(op, probe) ==
    [op EXCEPT !.pc = "connecting", !.probe = probe, !.pre = files[op.key],
               !.after = "none"]

Note(tags) == history' = history \cup tags

(***************************************************************************)
(* Actions: one per callback of the event loop.                            *)
(***************************************************************************)
Tick ==
    /\ now < StartMs + MaxTicks * TickMs
    /\ now' = now + TickMs
    /\ UNCHANGED <<config, lockedFiles, files, parts, ops, upstream, last, history, ttlVars, lockerVars, probeVars>>

\* Petra.prototype.fetch(url, done) up to locker.lock(filename, ...)
Fetch(o, k) ==
    /\ Issued(o)
    /\ k \in urls
    /\ lockedFiles' = LockTable(lockedFiles, o, k)
    /\ ops' = [ops EXCEPT ![o] = NewOp("fetch", k)]
    /\ UNCHANGED <<now, config, files, parts, upstream, last, history, ttlVars, lockerVars, probeVars>>

\* Petra.prototype.purge(url, done) up to locker.lock(filename, ...)
Purge(o, k) ==
    /\ Issued(o)
    /\ k \in urls
    /\ lockedFiles' = LockTable(lockedFiles, o, k)
    /\ ops' = [ops EXCEPT ![o] = NewOp("purge", k)]
    /\ Note({"purge"})
    /\ UNCHANGED <<now, config, files, parts, upstream, last, ttlVars, lockerVars, probeVars>>

\* find -type f -mtime +1: the age in whole days is greater than 1
DayMs == TickMs
FindStale(f, t) == f.exists /\ (t - f.mtime) \div DayMs > 1

\* purgeStale: finder.stdout 'data' with the stale path, up to locker.lock
PurgerData(o, k) ==
    /\ Issued(o)
    /\ k \in urls
    /\ FindStale(files[k], now)
    /\ lockedFiles' = LockTable(lockedFiles, o, k)
    /\ ops' = [ops EXCEPT ![o] = NewOp("purger", k)]
    /\ Note({"purge"})
    /\ UNCHANGED <<now, config, files, parts, upstream, last, ttlVars, lockerVars, probeVars>>

\* fetch's probe callback on a hit: unlock, then done(null, filename, atime, mtime)
FetchHit(o) ==
    LET k == ops[o].key
        f == files[k]
        os == [ops EXCEPT ![o] = DeliverOk(@)]
    IN  /\ Alive
        /\ ops[o].pc = "stat"
        /\ IsHit(f, now)
        /\ last' = OkCall("hit", k, f.atime, f.mtime, f.hdr, f.lib)
        /\ ops' = HandedOver(UnlockOps(os, lockedFiles, k), ops, "ok")
        /\ lockedFiles' = UnlockTable(lockedFiles, k)
        /\ UNCHANGED <<now, config, files, parts, upstream, history, ttlVars, lockerVars, probeVars>>

\* fs.stat answered ENOENT: fs.mkdir(cachePath) is submitted
StatEnoent(o) ==
    /\ Alive
    /\ ops[o].pc = "stat"
    /\ ~files[ops[o].key].exists
    /\ ops' = [ops EXCEPT ![o].pc = "mkdir"]
    /\ UNCHANGED <<now, config, lockedFiles, files, parts, upstream, last, history, ttlVars, lockerVars, probeVars>>

\* fs.stat answered an expired or invalid file: miss, _fetchFromUpstream
StatExpired(o) ==
    LET k == ops[o].key
    IN  /\ Alive
        /\ ops[o].pc = "stat"
        /\ files[k].exists
        /\ ~IsHit(files[k], now)
        /\ ops' = [ops EXCEPT ![o] = StartUpstream(@, "stale")]
        /\ upstream' = [upstream EXCEPT ![k] = @ + 1]
        /\ Note(IF files[k].lib /\ files[k].body # "empty" THEN {"expired"} ELSE {})
        /\ UNCHANGED <<now, config, lockedFiles, files, parts, last, ttlVars, lockerVars, probeVars>>

\* a stat error handed on to the caller: done(err) and unlock, no upstream request
StatErrorSurfaced(o) ==
    LET k == ops[o].key
        os == [ops EXCEPT ![o] = [@ EXCEPT !.pc = "failed", !.out = "err", !.calls = @ + 1]]
    IN  /\ Alive
        /\ ops[o].pc = "stat"
        /\ last' = ErrCall(k, ErrorWithCode(<<"could not stat">>, 0))
        /\ ops' = UnlockOps(os, lockedFiles, k)
        /\ lockedFiles' = UnlockTable(lockedFiles, k)
        /\ Note({"staterror"})
        /\ UNCHANGED <<now, config, files, parts, upstream, ttlVars, lockerVars, probeVars>>

\* fs.stat failed with another error than ENOENT: logged, miss, _fetchFromUpstream
StatError(o) ==
    LET k == ops[o].key
    IN  /\ Alive
        /\ ops[o].pc = "stat"
        /\ ops' = [ops EXCEPT ![o] = StartUpstream(@, "error")]
        /\ upstream' = [upstream EXCEPT ![k] = @ + 1]
        /\ Note({"staterror"})
        /\ UNCHANGED <<now, config, lockedFiles, files, parts, last, ttlVars, lockerVars, probeVars>>

\* fs.mkdir called back (an error is only logged): miss, _fetchFromUpstream
MkdirDone(o) ==
    LET k == ops[o].key
    IN  /\ Alive
        /\ ops[o].pc = "mkdir"
        /\ ops' = [ops EXCEPT ![o] = StartUpstream(@, "enoent")]
        /\ upstream' = [upstream EXCEPT ![k] = @ + 1]
        /\ UNCHANGED <<now, config, lockedFiles, files, parts, last, history, ttlVars, lockerVars, probeVars>>

\* onError(err) by operation o of the operation table os, and nothing more
\* from this request
FailWith(os, o, err) ==
    /\ ops' = [os EXCEPT ![o] = OnError([@ EXCEPT !.pc = "failed", !.timer = 0], err)]
    /\ Note({"failure"})
    /\ UNCHANGED <<now, config, lockedFiles, files, parts, upstream, last, ttlVars, lockerVars, probeVars>>

\* an upstream failure: onError(err)
Fail(o, err) == FailWith(ops, o, err)

\* every underlying error counted as a timeout
TransportCodeAlways504(e) == 504

\* err.code && [ECONNREFUSED, ETIMEDOUT, ESOCKETTIMEDOUT].includes(err.code) ? 504 : 502
TransportCode(e) ==
    IF e # "nocode" /\ e \in {"ECONNREFUSED", "ETIMEDOUT", "ESOCKETTIMEDOUT"} THEN 504 ELSE 502

\* err.message of the underlying error with code e
MessageOf(e) == <<"message of", e>>

\* get's callback with err: onError(errorWithCode(err.message, code))
TransportError(o, e) ==
    /\ Alive
    /\ ops[o].pc = "connecting"
    /\ Fail(o, ErrorWithCode(MessageOf(e), TransportCode(e)))

\* the message of a status error naming another field of the response
StatusMessageWrong(status) == <<"status code", ToString(200)>>

\* `status code ${res.statusCode}`
StatusMessage(status) == <<"status code", ToString(status)>>

\* the response is recorded with the operation (history field res)
Responded(o, status, ctype) == [ops EXCEPT ![o].res = [status |-> status, ctype |-> ctype]]


\* get's callback with a response whose statusCode is not 200: abort, onError
ResponseNon200(o, status, ctype) ==
    /\ Alive
    /\ ops[o].pc = "connecting"
    /\ status # 200
    /\ FailWith(Responded(o, status, ctype), o, ErrorWithCode(StatusMessage(status), status))

\* a media type filter that rejects every response
AcceptedNever(ctype) == FALSE

\* !(this.mediaTypes.length > 0 && !this.mediaTypes.includes(content-type))
Accepted(ctype) == ~(MediaTypes # {} /\ ctype \notin MediaTypes)

\* the media type check made ahead of the status check: a response of any
\* status with a foreign content-type fails with 415
ResponseBadMediaFirst(o, ctype) ==
    /\ Alive
    /\ ops[o].pc = "connecting"
    /\ ~Accepted(ctype)
    /\ \E status \in Statuses :
          FailWith(Responded(o, status, ctype), o,
                   ErrorWithCode(<<"unsupported media-type", ctype>>, 415))

\* a 200 whose content-type is not in a non-empty mediaTypes: abort, onError(415)
ResponseBadMedia(o, ctype) ==
    /\ Alive
    /\ ops[o].pc = "connecting"
    /\ ~Accepted(ctype)
    /\ FailWith(Responded(o, 200, ctype), o,
                ErrorWithCode(<<"unsupported media-type", ctype>>, 415))

\* setTimeout(..., this.responseTimeout) when responseTimeout > 0: the deadline
ArmTimer(t, timeout) == IF timeout > 0 THEN t + timeout ELSE 0

\* an accepted 200: arm the response timer, fs.createWriteStream, res.pipe(file)
ResponseOk(o, hdr, body, ctype) ==
    /\ Alive
    /\ ops[o].pc = "connecting"
    /\ Accepted(ctype)
    /\ ops' = [ops EXCEPT ![o] = [@ EXCEPT !.pc = "streaming", !.hdr = hdr, !.body = body,
                                           !.res = [status |-> 200, ctype |-> ctype],
                                           !.ws = "opening",
                                           !.timer = ArmTimer(now, responseTimeout)]]
    /\ Note(IF body = "empty" THEN {"emptybody"} ELSE {})
    /\ UNCHANGED <<now, config, lockedFiles, files, parts, upstream, last, ttlVars, lockerVars, probeVars>>

\* the write stream's fs.open(partialContentFilename, 'w') completes
FileOpen(o) ==
    LET k == ops[o].key
    IN  /\ Alive
        /\ ops[o].ws = "opening"
        /\ ops' = [ops EXCEPT ![o].ws = "part"]
        /\ parts' = [parts EXCEPT ![k] =
                        [exists |-> TRUE, body |-> "empty", atime |-> now, mtime |-> now,
                         hdr |-> <<>>, lib |-> FALSE]]
        /\ UNCHANGED <<now, config, lockedFiles, files, upstream, last, history, ttlVars, lockerVars, probeVars>>

\* the write stream emits 'error' (fs.open or a write failed: EACCES, ENOENT,
\* ENOSPC, EMFILE): no 'error' listener is attached to it, so the event is
\* thrown as an uncaught exception and the process exits
FileError(o) ==
    /\ Alive
    /\ ops[o].pc = "streaming"
    /\ ops[o].ws \in {"opening", "part"}
    /\ ops' = [ops EXCEPT ![o].ws = "error"]
    /\ Note({"thrown"})
    /\ UNCHANGED <<now, config, lockedFiles, files, parts, upstream, last, ttlVars, lockerVars, probeVars>>

\* the inode of a write stream after a write of content b at time t
Written(f, b, t) == [f EXCEPT !.body = b, !.mtime = t]

WriteInode(o, b) ==
    LET k == ops[o].key
    IN  /\ parts' = IF ops[o].ws = "part"
                    THEN [parts EXCEPT ![k] = Written(@, b, now)] ELSE parts
        /\ files' = IF ops[o].ws = "canon"
                    THEN [files EXCEPT ![k] = Written(@, b, now)] ELSE files

\* a chunk of a non-empty body is piped into the write stream
ResData(o) ==
    /\ Alive
    /\ ops[o].pc = "streaming"
    /\ ops[o].body = "full"
    /\ ops[o].ws \in {"part", "canon"}
    /\ WriteInode(o, "partial")
    /\ UNCHANGED <<now, config, lockedFiles, ops, upstream, last, history, ttlVars, lockerVars, probeVars>>

\* res 'end' without clearResponseTimeout
ResEndKeepsTimer(o) ==
    /\ Alive
    /\ ops[o].pc = "streaming"
    /\ ops' = [ops EXCEPT ![o].pc = "ended"]
    /\ UNCHANGED <<now, config, lockedFiles, files, parts, upstream, last, history, ttlVars, lockerVars, probeVars>>

\* res 'end': clearResponseTimeout, and the pipe ends the write stream
ResEnd(o) ==
    /\ Alive
    /\ ops[o].pc = "streaming"
    /\ ops' = [ops EXCEPT ![o] = [@ EXCEPT !.pc = "ended", !.timer = 0]]
    /\ UNCHANGED <<now, config, lockedFiles, files, parts, upstream, last, history, ttlVars, lockerVars, probeVars>>

\* the write stream flushed and closed: file 'close', fs.rename is submitted
FileClose(o) ==
    /\ Alive
    /\ ops[o].pc = "ended"
    /\ ops[o].ws \in {"part", "canon", "gone"}
    /\ WriteInode(o, ops[o].body)
    /\ ops' = [ops EXCEPT ![o] = [@ EXCEPT !.pc = "renaming", !.ws = "closed"]]
    /\ UNCHANGED <<now, config, lockedFiles, upstream, last, history, ttlVars, lockerVars, probeVars>>

\* fs.rename succeeded: ttl, atime and mtime are computed, fs.utimes is submitted
RenameDone(o) ==
    LET k == ops[o].key
        os == [ops EXCEPT ![o] =
                  [@ EXCEPT !.pc = "utimes", !.atime = now,
                            !.mtime = ExpiryOf(now, EffectiveTtl(minimumTtl, ops[o].hdr))]]
    IN  /\ Alive
        /\ ops[o].pc = "renaming"
        /\ parts[k].exists
        /\ files' = [files EXCEPT ![k] = parts[k]]
        /\ parts' = [parts EXCEPT ![k] = NoFile]
        /\ ops' = RenameFds(os, k)
        /\ UNCHANGED <<now, config, lockedFiles, upstream, last, history, ttlVars, lockerVars, probeVars>>

\* fs.rename failed (ENOENT when the .part is gone, or any other error): onError
RenameFail(o) ==
    Alive /\ ops[o].pc = "renaming" /\ Fail(o, ErrorWithCode(<<"could not rename">>, 0))

\* fs.utimes succeeded: done(null, atime, mtime), so unlock and the caller's done
UtimesDone(o) ==
    LET k == ops[o].key
        os == [ops EXCEPT ![o] = DeliverOk(@)]
    IN  /\ Alive
        /\ ops[o].pc = "utimes"
        /\ files[k].exists
        /\ files' = [files EXCEPT ![k] = [@ EXCEPT !.atime = ops[o].atime,
                                                   !.mtime = ops[o].mtime,
                                                   !.hdr = ops[o].hdr, !.lib = TRUE]]
        /\ last' = OkCall("upstream", k, ops[o].atime, ops[o].mtime, ops[o].hdr, TRUE)
        /\ ops' = HandedOver(UnlockOps(os, lockedFiles, k), ops, "ok")
        /\ lockedFiles' = UnlockTable(lockedFiles, k)
        /\ UNCHANGED <<now, config, parts, upstream, history, ttlVars, lockerVars, probeVars>>

\* fs.utimes failed (ENOENT when the file is gone, or any other error): onError
UtimesFail(o) ==
    Alive /\ ops[o].pc = "utimes" /\ Fail(o, ErrorWithCode(<<"could not update">>, 0))

\* a response timeout reported as a bad gateway
TimeoutErrorAs502(timeout) == ErrorWithCode(<<"response timeout of", ToString(timeout), "ms">>, 502)

\* errorWithCode(`response timeout of ${this.responseTimeout}ms`, 504)
TimeoutError(timeout) == ErrorWithCode(<<"response timeout of", ToString(timeout), "ms">>, 504)

\* the response timer fires: req.abort(), onError(504); the response's handlers
\* ('end', 'error') and the write stream stay attached
TimerFire(o) ==
    /\ Alive
    /\ ops[o].timer > 0
    /\ now >= ops[o].timer
    /\ ops' = [ops EXCEPT ![o] = [@ EXCEPT !.pc = "aborted", !.timer = 0,
                                           !.pend = Append(@, TimeoutError(responseTimeout))]]
    /\ Note({"failure"})
    /\ UNCHANGED <<now, config, lockedFiles, files, parts, upstream, last, ttlVars, lockerVars, probeVars>>

\* res 'error' while the body streams: clearResponseTimeout, onError(err)
ResError(o) ==
    Alive /\ ops[o].pc = "streaming" /\ Fail(o, ErrorWithCode(MessageOf("response"), 0))

\* after req.abort() the runtime emits 'error' on the response ('aborted',
\* ECONNRESET): clearResponseTimeout, onError(err) a second time
ResErrorAfterAbort(o) ==
    Alive /\ ops[o].pc = "aborted" /\ Fail(o, ErrorWithCode(MessageOf("aborted"), 0))

\* after req.abort() the runtime emits 'end' on the response (older runtimes):
\* the pipe ends the write stream with the part of the body that arrived
ResEndAfterAbort(o) ==
    /\ Alive
    /\ ops[o].pc = "aborted"
    /\ ops' = [ops EXCEPT ![o] = [@ EXCEPT !.pc = "ended",
                   !.body = IF @ = "full" THEN "partial" ELSE @]]
    /\ UNCHANGED <<now, config, lockedFiles, files, parts, upstream, last, history, ttlVars, lockerVars, probeVars>>

\* onError's fs.unlink called back: done(err), so the caller's done(err) and unlock
CleanupDone(o) ==
    LET k == ops[o].key
        os == [ops EXCEPT ![o] = DeliverErr(@)]
    IN  /\ Alive
        /\ ops[o].pend # <<>>
        /\ parts' = [parts EXCEPT ![k] = NoFile]
        /\ last' = ErrCall(k, Head(ops[o].pend))
        /\ ops' = HandedOver(UnlockOps(UnlinkPartFds(os, k), lockedFiles, k), ops,
                             IF ops[o].calls = 0 THEN "err" ELSE "again")
        /\ lockedFiles' = UnlockTable(lockedFiles, k)
        /\ UNCHANGED <<now, config, files, upstream, history, ttlVars, lockerVars, probeVars>>

\* purge / purgeStale: fs.unlink(filename) called back: unlock, and purge's done()
UnlinkDone(o) ==
    LET k == ops[o].key
        os == [ops EXCEPT ![o] =
                  [@ EXCEPT !.pc = "done",
                            !.calls = IF ops[o].kind = "purge" THEN @ + 1 ELSE @,
                            !.out = IF ops[o].kind = "purge" THEN "ok" ELSE @]]
    IN  /\ Alive
        /\ ops[o].pc = "unlinking"
        /\ ops[o].kind \in {"purge", "purger"}
        /\ files' = Unlinked(files, k)
        /\ last' = IF ops[o].kind = "purge" THEN [NoCall EXCEPT !.via = "purge"] ELSE last
        /\ ops' = HandedOver(UnlockOps(UnlinkFileFds(os, k), lockedFiles, k), ops, "purge")
        /\ lockedFiles' = UnlockTable(lockedFiles, k)
        /\ UNCHANGED <<now, config, parts, upstream, history, ttlVars, lockerVars, probeVars>>

Next ==
    \/ Tick
    \/ \E o \in OpIds, k \in Keys : Fetch(o, k) \/ Purge(o, k) \/ PurgerData(o, k)
    \/ \E o \in OpIds :
        \/ FetchHit(o) \/ StatEnoent(o) \/ StatExpired(o) \/ StatError(o) \/ MkdirDone(o)
        \/ FileOpen(o) \/ FileError(o) \/ ResData(o) \/ ResEnd(o) \/ FileClose(o)
        \/ RenameDone(o) \/ RenameFail(o) \/ UtimesDone(o) \/ UtimesFail(o)
        \/ TimerFire(o) \/ ResError(o) \/ ResErrorAfterAbort(o) \/ ResEndAfterAbort(o)
        \/ CleanupDone(o) \/ UnlinkDone(o)
    \/ \E o \in OpIds, e \in TransportErrors : TransportError(o, e)
    \/ \E o \in OpIds, status \in Statuses, ctype \in ContentTypes :
        ResponseNon200(o, status, ctype)
    \/ \E o \in OpIds, ctype \in ContentTypes : ResponseBadMedia(o, ctype)
    \/ \E o \in OpIds, hdr \in ResponseHeaders, body \in {"full", "empty"},
          ctype \in ContentTypes : ResponseOk(o, hdr, body, ctype)

\* the library with NOps operations issued
Spec == Init /\ [][Next]_vars

\* the same with one operation more
InitWide ==
    InitWith(NOps + 1) /\ responseTimeout > 0 /\ seed = "stale" /\ directory.found = "rw"
SpecWide == InitWide /\ [][Next]_vars

(***************************************************************************)
(* The TTL computation on its own: every header value of up to             *)
(* MaxHeaderLen tokens, every minimumTtl up to MaxMinimumTtl.              *)
(***************************************************************************)
Headers == {Absent} \cup UNION {[1..n -> Atoms] : n \in 0..MaxHeaderLen}

TtlInit ==
    /\ now = StartMs
    /\ minimumTtl \in 0..MaxMinimumTtl
    /\ filterMedia = FALSE
    /\ responseTimeout = 0
    /\ urls = {}
    /\ opLimit = 0
    /\ seed = "none"
    /\ directory = Constructed("rw")
    /\ lockedFiles = [k \in Keys |-> NoLock]
    /\ files = [k \in Keys |-> NoFile]
    /\ parts = [k \in Keys |-> NoFile]
    /\ ops = [o \in OpIds |-> IdleOp]
    /\ upstream = [k \in Keys |-> 0]
    /\ last = NoCall
    /\ history = {}
    /\ tHeader \in Headers
    /\ tTtl = NoTtl
    /\ lockOrder = [k \in Keys |-> <<>>]
    /\ grantOrder = [k \in Keys |-> <<>>]
    /\ pStat = NoStat
    /\ pOut = "none"

\* const ttl = Math.max(this.minimumTtl, ttlFromCacheControlHeader(...))
TtlCompute ==
    /\ tTtl.ttl = -1
    /\ tTtl' = [tTtl EXCEPT !.parsed = ttlFromCacheControlHeader(tHeader),
                            !.ttl = EffectiveTtl(minimumTtl, tHeader)]
    /\ UNCHANGED <<now, config, lockedFiles, files, parts, ops, upstream, last, history,
                   tHeader, lockerVars, probeVars>>

\* const atime = new Date(); const mtime = new Date(atime.getTime() + ttl * 1000)
TtlStamp ==
    /\ tTtl.ttl # -1
    /\ tTtl.atime = -1
    /\ tTtl' = [tTtl EXCEPT !.atime = now, !.mtime = ExpiryOf(now, tTtl.ttl)]
    /\ UNCHANGED <<now, config, lockedFiles, files, parts, ops, upstream, last, history,
                   tHeader, lockerVars, probeVars>>

TtlNext == TtlCompute \/ TtlStamp

SpecTtl == TtlInit /\ [][TtlNext]_vars

(***************************************************************************)
(* The probe on its own: _fetchFromFilesystem and the test of its result   *)
(* in fetch, on every outcome of fs.stat.                                  *)
(***************************************************************************)
MaxSize == 2       \* largest stats.size, in bytes
MaxSkew == 2       \* stats.mtime ranges over now - MaxSkew .. now + MaxSkew ticks

StatErrors == {"ENOENT", "EACCES"}

\* what fs.stat can hand to its callback at time t
StatOutcomes(t) ==
    { [NoStat EXCEPT !.err = e] : e \in StatErrors } \cup
    { [err |-> "none", isFile |-> r, size |-> n, atime |-> t, mtime |-> t + d * TickMs] :
        r \in BOOLEAN, n \in 0..MaxSize, d \in (0 - MaxSkew)..MaxSkew }

ProbeInit ==
    /\ now \in {StartMs + i * TickMs : i \in MaxSkew..(MaxSkew + MaxTicks)}
    /\ minimumTtl = 0
    /\ filterMedia = FALSE
    /\ responseTimeout = 0
    /\ urls = {}
    /\ opLimit = 0
    /\ seed = "none"
    /\ directory = Constructed("rw")
    /\ lockedFiles = [k \in Keys |-> NoLock]
    /\ files = [k \in Keys |-> NoFile]
    /\ parts = [k \in Keys |-> NoFile]
    /\ ops = [o \in OpIds |-> IdleOp]
    /\ upstream = [k \in Keys |-> 0]
    /\ last = NoCall
    /\ history = {}
    /\ tHeader = Absent
    /\ tTtl = NoTtl
    /\ lockOrder = [k \in Keys |-> <<>>]
    /\ grantOrder = [k \in Keys |-> <<>>]
    /\ pStat \in StatOutcomes(now)
    /\ pOut = "none"

\* fetch's test of the probe's result: !err && atime && mtime, where the probe
\* hands over either nothing or two Date objects (which are truthy)
ProbeResult(given) == IF given THEN "hit" ELSE "miss"

\* the callback of fs.stat in _fetchFromFilesystem
ProbeStat ==
    /\ pOut = "none"
    /\ pOut' = IF pStat.err = "ENOENT" THEN "mkdir"
               ELSE IF pStat.err # "none" THEN ProbeResult(FALSE)
               ELSE ProbeResult(HitTest(pStat, now))
    /\ UNCHANGED <<now, config, lockedFiles, files, parts, ops, upstream, last, history,
                   ttlVars, lockerVars, pStat>>

\* the callback of fs.mkdir in _fetchFromFilesystem: done(null) in every case
ProbeMkdir ==
    /\ pOut = "mkdir"
    /\ pOut' = ProbeResult(FALSE)
    /\ UNCHANGED <<now, config, lockedFiles, files, parts, ops, upstream, last, history,
                   ttlVars, lockerVars, pStat>>

ProbeNext == ProbeStat \/ ProbeMkdir

SpecProbe == ProbeInit /\ [][ProbeNext]_vars

(***************************************************************************)
(* The FileLocker on its own: callers that call lock(k, proceed) and       *)
(* unlock(k); a caller's proceed only records that it runs.  A call made   *)
(* from inside a proceed runs within the step of the lock or unlock that   *)
(* invoked the proceed.                                                    *)
(***************************************************************************)
LockerInit ==
    /\ now = StartMs
    /\ minimumTtl = 0
    /\ filterMedia = FALSE
    /\ responseTimeout = 0
    /\ urls = Keys
    /\ opLimit = NOps + 1
    /\ seed = "none"
    /\ directory = Constructed("rw")
    /\ lockedFiles = [k \in Keys |-> NoLock]
    /\ files = [k \in Keys |-> NoFile]
    /\ parts = [k \in Keys |-> NoFile]
    /\ ops = [o \in OpIds |-> IdleOp]
    /\ upstream = [k \in Keys |-> 0]
    /\ last = NoCall
    /\ history = {}
    /\ tHeader = Absent
    /\ tTtl = NoTtl
    /\ lockOrder = [k \in Keys |-> <<>>]
    /\ grantOrder = [k \in Keys |-> <<>>]
    /\ pStat = NoStat
    /\ pOut = "none"

\* caller a as lock(k, proceed) leaves it, called on the table lf
Caller(lf, k) == [IdleOp EXCEPT !.kind = "caller", !.key = k, !.pc = LockPc(lf, k, "caller")]

\* the callers whose proceed was invoked between the operation tables os and os2
Invoked(os, os2) == {a \in OpIds : os[a].pc # "holding" /\ os2[a].pc = "holding"}

\* the callers of a set as a sequence (a step invokes at most one proceed)
RECURSIVE SeqOf(_)
SeqOf(S) == IF S = {} THEN <<>> ELSE LET a == CHOOSE x \in S : TRUE IN <<a>> \o SeqOf(S \ {a})

\* locker.lock(k, proceed) by caller a
LockerLock(a, k) ==
    /\ ops[a].pc = "idle"
    /\ lockedFiles' = LockTable(lockedFiles, a, k)
    /\ ops' = [ops EXCEPT ![a] = Caller(lockedFiles, k)]
    /\ lockOrder' = [lockOrder EXCEPT ![k] = Append(@, a)]
    /\ grantOrder' = [grantOrder EXCEPT ![k] = @ \o SeqOf(Invoked(ops, ops'))]
    /\ UNCHANGED <<now, config, files, parts, upstream, last, history, ttlVars, probeVars>>

\* locker.lock(k, proceed) by caller a on a free key, whose proceed, running
\* inside lock, calls locker.lock(k, ...) for caller b
LockerLockNested(a, b, k) ==
    LET lf1 == LockTable(lockedFiles, a, k)
        os1 == [ops EXCEPT ![a] = Caller(lockedFiles, k)]
    IN  /\ a # b
        /\ ops[a].pc = "idle"
        /\ ops[b].pc = "idle"
        /\ ~lockedFiles[k].held
        /\ lockedFiles' = LockTable(lf1, b, k)
        /\ ops' = [os1 EXCEPT ![b] = Caller(lf1, k)]
        /\ lockOrder' = [lockOrder EXCEPT ![k] = @ \o <<a, b>>]
        /\ grantOrder' = [grantOrder EXCEPT ![k] = @ \o SeqOf(Invoked(ops, ops'))]
        /\ UNCHANGED <<now, config, files, parts, upstream, last, history, ttlVars, probeVars>>

\* locker.unlock(k) by the caller whose proceed ran and who has not unlocked yet
LockerUnlock(a, k) ==
    LET os == [ops EXCEPT ![a].pc = "done"]
    IN  /\ ops[a].pc = "holding"
        /\ ops[a].key = k
        /\ ops' = UnlockOps(os, lockedFiles, k)
        /\ lockedFiles' = UnlockTable(lockedFiles, k)
        /\ grantOrder' = [grantOrder EXCEPT ![k] = @ \o SeqOf(Invoked(ops, ops'))]
        /\ UNCHANGED <<now, config, files, parts, upstream, last, history, ttlVars, probeVars, lockOrder>>

\* locker.unlock(k) once more by a caller that has unlocked already
LockerUnlockStray(a, k) ==
    /\ ops[a].pc = "done"
    /\ ops[a].key = k
    /\ ops' = UnlockOps(ops, lockedFiles, k)
    /\ lockedFiles' = UnlockTable(lockedFiles, k)
    /\ grantOrder' = [grantOrder EXCEPT ![k] = @ \o SeqOf(Invoked(ops, ops'))]
    /\ Note({"stray"})
    /\ UNCHANGED <<now, config, files, parts, upstream, last, ttlVars, probeVars, lockOrder>>

LockerNext ==
    \/ \E a \in OpIds, k \in Keys : LockerLock(a, k)
    \/ \E a \in OpIds, b \in OpIds, k \in Keys : LockerLockNested(a, b, k)
    \/ \E a \in OpIds, k \in Keys : LockerUnlock(a, k)
    \/ \E a \in OpIds, k \in Keys : LockerUnlockStray(a, k)

SpecLocker == LockerInit /\ [][LockerNext]_vars

(***************************************************************************)
(* The purger on the finder's real output.  spawn is given no encoding, so *)
(* a 'data' event of finder.stdout carries a Buffer: the bytes find        *)
(* printed, each path followed by a newline.  The Map of the lock table    *)
(* compares an object key by identity, so the Buffer is a key no other     *)
(* call holds, and fs.unlink gets the Buffer's bytes as its path.          *)
(***************************************************************************)
\* lockedFiles.has(key) for the key fetch and purge use (a string, compared by
\* value) and for a Buffer (an object no earlier call has seen)
HasKey(lf, k, isBuffer) == IF isBuffer THEN FALSE ELSE lf[k].held

\* the path fs.unlink removes when handed the chunk of the path of key k: the
\* chunk ends with find's newline, which is no part of any cached filename
ChunkNames(k) == "none"

\* finder.stdout 'data' with a Buffer naming the stale path of key k:
\* locker.lock(staleFilePath, ...) sets an entry of its own and runs proceed,
\* which submits fs.unlink(staleFilePath)
PurgerChunk(o, k) ==
    /\ Issued(o)
    /\ k \in urls
    /\ FindStale(files[k], now)
    /\ ~HasKey(lockedFiles, k, TRUE)
    /\ ops' = [ops EXCEPT ![o] = [IdleOp EXCEPT !.kind = "chunk", !.key = k,
                                                !.pc = StartPc("chunk")]]
    /\ Note({"purge", "chunk"})
    /\ UNCHANGED <<now, config, lockedFiles, files, parts, upstream, last, ttlVars, lockerVars, probeVars>>

\* fs.unlink(staleFilePath) of a Buffer called back (its error is ignored):
\* locker.unlock(staleFilePath) deletes the Buffer's own entry
ChunkUnlinkDone(o) ==
    /\ Alive
    /\ ops[o].kind = "chunk"
    /\ ops[o].pc = "unlinking"
    /\ files' = IF ChunkNames(ops[o].key) \in Keys THEN Unlinked(files, ChunkNames(ops[o].key))
                ELSE files
    /\ ops' = [ops EXCEPT ![o].pc = "done"]
    /\ UNCHANGED <<now, config, lockedFiles, parts, upstream, last, history, ttlVars, lockerVars, probeVars>>

SweepNext ==
    \/ Next
    \/ \E o \in OpIds, k \in Keys : PurgerChunk(o, k)
    \/ \E o \in OpIds : ChunkUnlinkDone(o)

\* the library with the purger's events as the finder's stdout delivers them
SpecSweep == Init /\ [][SweepNext]_vars

(***************************************************************************)
(* Two URLs with different fingerprints: a stale entry for one, none for  *)
(* the other.                                                              *)
(***************************************************************************)
KeysInit ==
    /\ now = StartMs
    /\ minimumTtl = 1
    /\ filterMedia = TRUE
    /\ responseTimeout = TickMs
    /\ urls = Keys
    /\ opLimit = NOps
    /\ seed = "stale"
    /\ directory = Constructed("rw")
    /\ lockedFiles = [k \in Keys |-> NoLock]
    /\ files = [k \in Keys |-> IF k = "ka" THEN SeedFile(seed) ELSE NoFile]
    /\ parts = [k \in Keys |-> NoFile]
    /\ ops = [o \in OpIds |-> IdleOp]
    /\ upstream = [k \in Keys |-> 0]
    /\ last = NoCall
    /\ history = {}
    /\ tHeader = Absent
    /\ tTtl = NoTtl
    /\ lockOrder = [k \in Keys |-> <<>>]
    /\ grantOrder = [k \in Keys |-> <<>>]
    /\ pStat = NoStat
    /\ pOut = "none"

\* the library serving two URLs
SpecKeys == KeysInit /\ [][Next]_vars

(***************************************************************************)
(* Callers whose callback throws.  done runs inside a callback of the      *)
(* event loop, so what it throws unwinds the rest of that callback and     *)
(* becomes an uncaught exception: the process exits, or goes on when the   *)
(* host handles uncaughtException (handled).                               *)
(***************************************************************************)
Thrown(handled) == IF handled THEN {"cbthrew"} ELSE {"cbthrew", "thrown"}

\* filesystem hit: locker.unlock(filename), then done(null, ...) throws
FetchHitThrows(o, handled) ==
    LET k == ops[o].key
        f == files[k]
        os == [ops EXCEPT ![o] = DeliverOk(@)]
    IN  /\ Alive
        /\ ops[o].pc = "stat"
        /\ IsHit(f, now)
        /\ last' = OkCall("hit", k, f.atime, f.mtime, f.hdr, f.lib)
        /\ ops' = HandedOver(UnlockOps(os, lockedFiles, k), ops, "ok")
        /\ lockedFiles' = UnlockTable(lockedFiles, k)
        /\ Note(Thrown(handled))
        /\ UNCHANGED <<now, config, files, parts, upstream, ttlVars, lockerVars, probeVars>>

\* upstream OK: locker.unlock(filename), then done(null, ...) throws
UtimesDoneThrows(o, handled) ==
    LET k == ops[o].key
        os == [ops EXCEPT ![o] = DeliverOk(@)]
    IN  /\ Alive
        /\ ops[o].pc = "utimes"
        /\ files[k].exists
        /\ files' = [files EXCEPT ![k] = [@ EXCEPT !.atime = ops[o].atime,
                                                   !.mtime = ops[o].mtime,
                                                   !.hdr = ops[o].hdr, !.lib = TRUE]]
        /\ last' = OkCall("upstream", k, ops[o].atime, ops[o].mtime, ops[o].hdr, TRUE)
        /\ ops' = HandedOver(UnlockOps(os, lockedFiles, k), ops, "ok")
        /\ lockedFiles' = UnlockTable(lockedFiles, k)
        /\ Note(Thrown(handled))
        /\ UNCHANGED <<now, config, parts, upstream, ttlVars, lockerVars, probeVars>>

\* upstream error: done(err) throws, and the locker.unlock(filename) that
\* follows it in the code does not run
CleanupDoneThrows(o, handled) ==
    LET k == ops[o].key
        os == [ops EXCEPT ![o] = DeliverErr(@)]
    IN  /\ Alive
        /\ ops[o].pend # <<>>
        /\ parts' = [parts EXCEPT ![k] = NoFile]
        /\ last' = ErrCall(k, Head(ops[o].pend))
        /\ ops' = UnlinkPartFds(os, k)
        /\ Note(Thrown(handled))
        /\ UNCHANGED <<now, config, lockedFiles, files, upstream, ttlVars, lockerVars, probeVars>>

ThrowNext ==
    \/ Next
    \/ \E o \in OpIds, handled \in BOOLEAN :
          FetchHitThrows(o, handled) \/ UtimesDoneThrows(o, handled)
              \/ CleanupDoneThrows(o, handled)

\* the library with callers whose callbacks may throw
SpecThrow == Init /\ [][ThrowNext]_vars

(***************************************************************************)
(* Progress.  The event loop runs every callback that is due: a submitted  *)
(* filesystem operation calls back, a timer fires once its delay has       *)
(* passed, and get() calls back with a response or with an error, at the   *)
(* latest when requestTimeout expires (timeout: this.requestTimeout).  The *)
(* body of a response is the upstream's business: it may never end.        *)
(***************************************************************************)
\* the clock advances, also past the last tick of a run while a timer is pending
LiveTick ==
    /\ \/ now < StartMs + MaxTicks * TickMs
       \/ \E o \in OpIds : ops[o].timer > now
    /\ now' = now + TickMs
    /\ UNCHANGED <<config, lockedFiles, files, parts, ops, upstream, last, history, ttlVars, lockerVars, probeVars>>

\* get's callback runs for operation o
GetCallback(o) ==
    \/ \E e \in TransportErrors : TransportError(o, e)
    \/ \E status \in Statuses, ctype \in ContentTypes : ResponseNon200(o, status, ctype)
    \/ \E ctype \in ContentTypes : ResponseBadMedia(o, ctype)
    \/ \E hdr \in ResponseHeaders, body \in {"full", "empty"}, ctype \in ContentTypes :
          ResponseOk(o, hdr, body, ctype)

\* a callback of a filesystem operation or of a timer of operation o runs
FsCallback(o) ==
    \/ FetchHit(o) \/ StatEnoent(o) \/ StatExpired(o) \/ StatError(o) \/ MkdirDone(o)
    \/ FileOpen(o) \/ FileError(o) \/ FileClose(o)
    \/ RenameDone(o) \/ RenameFail(o) \/ UtimesDone(o) \/ UtimesFail(o)
    \/ TimerFire(o) \/ CleanupDone(o) \/ UnlinkDone(o)

LiveInit == Init /\ responseTimeout > 0

LiveNext == Next \/ LiveTick

Fairness ==
    /\ WF_vars(LiveTick)
    /\ \A o \in OpIds : WF_vars(GetCallback(o)) /\ WF_vars(FsCallback(o))

\* the library with a response timeout, under the event loop's scheduling
SpecLive == LiveInit /\ [][LiveNext]_vars /\ Fairness

(***************************************************************************)
(* Properties.                                                             *)
(***************************************************************************)
Range(h) == {h[i] : i \in 1..Len(h)}

\* the number a sequence of decimal digits denotes
RECURSIVE Decimal(_, _)
Decimal(ds, acc) ==
    IF ds = <<>> THEN acc ELSE Decimal(Tail(ds), 10 * acc + DigitVal(Head(ds)))

\* where directive kw is followed by at least one digit
DirectiveAt(h, kw) == {i \in 1..(Len(h) - 1) : h[i] = kw /\ h[i + 1] \in Digits}

\* the number given by the first occurrence of directive kw
FirstValue(h, kw) ==
    LET i == CHOOSE x \in DirectiveAt(h, kw) : \A y \in DirectiveAt(h, kw) : x <= y
        j == CHOOSE x \in (i + 1)..Len(h) :
                /\ \A m \in (i + 1)..x : h[m] \in Digits
                /\ (x = Len(h) \/ h[x + 1] \notin Digits)
    IN  Decimal(SubSeq(h, i + 1, j), 0)

\* the header value is exactly max-age=N
IsMaxAgeOnly(h) ==
    /\ h # Absent
    /\ Len(h) >= 2
    /\ h[1] = "max-age="
    /\ \A i \in 2..Len(h) : h[i] \in Digits

NoUsableDirective(h) ==
    \/ h = Absent
    \/ "private" \in Range(h)
    \/ "no-cache" \in Range(h)
    \/ DirectiveAt(h, "s-maxage=") \cup DirectiveAt(h, "max-age=") = {}

\* C9: an absent header, one containing private or no-cache, or one without a
\* recognized max-age/s-maxage directive parses to 0 and the TTL is minimumTtl,
\* also when the header carries max-age or s-maxage as well.
UnusableHeaderGivesMinimum ==
    (tTtl.ttl # -1 /\ NoUsableDirective(tHeader)) =>
        tTtl.parsed = 0 /\ tTtl.ttl = minimumTtl

UnusableHeaderWitness ==
    /\ tTtl.ttl # -1
    /\ tHeader = <<"private", "max-age=", "2">>
    /\ minimumTtl = 1
    /\ tTtl.ttl = 1

\* C10: a header carrying s-maxage=S and max-age=M, in either order and without
\* private or no-cache, parses to S.
SMaxAgeWins ==
    ( /\ tTtl.ttl # -1
      /\ tHeader # Absent
      /\ "private" \notin Range(tHeader)
      /\ "no-cache" \notin Range(tHeader)
      /\ DirectiveAt(tHeader, "s-maxage=") # {}
      /\ DirectiveAt(tHeader, "max-age=") # {} ) =>
        tTtl.parsed = FirstValue(tHeader, "s-maxage=")

SMaxAgeWinsWitness ==
    /\ tTtl.ttl # -1
    /\ tHeader = <<"max-age=", "1", "s-maxage=", "2">>
    /\ tTtl.parsed = 2


\* the upstream requests of key k that are in flight
InFlight(k) == {o \in OpIds : ops[o].key = k /\ ops[o].pc \in {"connecting", "streaming"}}

\* C1: single-flight: for every key at most one upstream request is in flight,
\* whatever the interleaving of fetch, purge and purger operations and however
\* earlier requests ended.
SingleFlight == \A k \in Keys : Cardinality(InFlight(k)) <= 1

\* nothing more will happen for operation o
Settled(o) == ops[o].pc \in {"done", "failed"} /\ ops[o].pend = <<>>

\* C3: every fetch invokes its done exactly once, on every path.
CallbackExactlyOnce ==
    \A o \in OpIds : ops[o].kind = "fetch" =>
        /\ ops[o].calls <= 1
        /\ Settled(o) => ops[o].calls = 1

\* C4: a fetch releases the lock it acquired exactly once, so every unlock of a
\* key by a fetch is made while that fetch is the key's holder.
UnlockByHolder ==
    [][\A o \in OpIds :
          (ops[o].kind = "fetch" /\ ops'[o].calls > ops[o].calls) =>
              /\ lockedFiles[ops[o].key].held
              /\ lockedFiles[ops[o].key].owner = o
              /\ ops[o].calls = 0]_vars

\* the scenario of the herd test: an empty cache, only fetches, a working
\* filesystem and an upstream that answers every request with a complete 200
HerdScenario == seed = "none" /\ history \cap {"purge", "failure", "staterror"} = {}

\* C2 as stated: N concurrent fetches of one URL against an empty cache and an
\* upstream answering 200 issue exactly one upstream request in total.
HerdOneUpstreamAsStated ==
    HerdScenario => \A k \in Keys : upstream[k] <= 1

\* C2, amended: the same when every 200 carries a non-empty body and every
\* waiter probes before the entry expires: one upstream request, and every
\* callback succeeds with the filename of the key.
HerdOneUpstream ==
    (HerdScenario /\ history \cap {"emptybody", "expired"} = {}) =>
        /\ \A k \in Keys : upstream[k] <= 1
        /\ \A o \in OpIds : ops[o].calls <= 1 /\ ops[o].out # "err"
        /\ last.via # "none" => last.via \in {"hit", "upstream"} /\ last.filename = "ka"

HerdOneUpstreamWitness ==
    /\ HerdScenario
    /\ history = {}
    /\ \A o \in 1..NOps : ops[o].kind = "fetch" /\ ops[o].out = "ok"
    /\ upstream["ka"] = 1
    /\ last.via = "hit"

\* operation o's probe completes in this step, with no stat error
ProbeStep(o) == ops[o].pc = "stat" /\ ops'[o].pc # "stat" /\ ops'[o].probe # "error"

SuccessStep(o) ==
    /\ ops[o].pc = "utimes"
    /\ ops'[o].pc = "done"
    /\ ops[o].pend = <<>>
    /\ ops[o].calls = 0

\* a probe of a stale file is a miss and issues an upstream request
StaleIsMiss(o) ==
    LET k == ops[o].key
    IN  (ProbeStep(o) /\ files[k].exists /\ files[k].mtime <= now) =>
            /\ ops'[o].pc = "connecting"
            /\ upstream'[k] = upstream[k] + 1
            /\ files' = files

\* the success of a fetch that probed a stale file leaves at the canonical
\* path the file renamed from the .part path, stamped with the new timestamps
StaleReplaced(o) ==
    LET k == ops[o].key
    IN  (SuccessStep(o) /\ ops[o].probe = "stale") =>
            /\ files'[k].exists
            /\ files'[k].lib
            /\ last'.via = "upstream"
            /\ last'.mtime = files'[k].mtime
            /\ last'.atime = files'[k].atime

TtlIsMinimum ==
    tTtl.ttl # -1 =>
        tTtl.ttl = (IF minimumTtl <= tTtl.parsed THEN minimumTtl ELSE tTtl.parsed)


\* operation o's probe completes in this step and the latest callback before
\* it was the success of an upstream fetch of the same key
ProbeAfterSuccess(o) ==
    /\ ProbeStep(o)
    /\ last.via = "upstream"
    /\ last.filename = ops[o].key

\* the probing fetch is served from the filesystem with what the latest
\* callback returned, and no upstream request is issued
SameAsLast(o) ==
    /\ ops'[o].pc = "done"
    /\ ops'[o].out = "ok"
    /\ upstream' = upstream
    /\ last'.via = "hit"
    /\ last'.filename = last.filename
    /\ last'.atime = last.atime
    /\ last'.mtime = last.mtime

\* C12: a fetch that immediately follows a successful fetch of the same URL
\* (which stored a non-empty body with a positive TTL, no purge in between)
\* issues no upstream request and returns the same filename, atime and mtime.
RoundTrip ==
    [][\A o \in OpIds :
          ( /\ ProbeAfterSuccess(o)
            /\ now = last.atime
            /\ last.mtime > last.atime
            /\ history \cap {"emptybody", "purge"} = {} ) => SameAsLast(o)]_vars


\* operation o, a fetch, is handed an error in this step, for the first time
FirstErrorStep(o) ==
    /\ ops[o].kind = "fetch"
    /\ ops[o].calls = 0
    /\ ops'[o].calls = 1
    /\ ops'[o].out = "err"

\* C13: when a fetch's callback receives an error the canonical path holds what
\* it held when the fetch went upstream: nothing created, removed or modified,
\* whatever the failure point (rename and utimes included).
FailedFetchLeavesCanonical ==
    [][\A o \in OpIds : FirstErrorStep(o) => files'[ops[o].key] = ops[o].pre]_vars


\* operation o is a fetch that went upstream and has not been called back
InProgress(o) ==
    /\ ops[o].kind = "fetch"
    /\ ops[o].calls = 0
    /\ ops[o].pc \in {"connecting", "streaming", "ended", "renaming", "utimes",
                      "aborted", "failed"}

\* C14: a {filename}.part file exists only while an upstream fetch of that
\* filename is in progress; once the callbacks are made none is left, so the
\* cleanup unlink is not overtaken by the write stream creating the file.
PartOnlyInProgress ==
    \A k \in Keys : parts[k].exists => \E o \in OpIds : ops[o].key = k /\ InProgress(o)


\* operation o, a purge, is called back in this step
PurgeCallbackStep(o) == ops[o].kind = "purge" /\ ops'[o].calls > ops[o].calls

PurgeNeverFails ==
    [][\A o \in OpIds :
          /\ PurgeCallbackStep(o) =>
                /\ ops[o].calls = 0
                /\ last' = [NoCall EXCEPT !.via = "purge"]
                /\ ~(lockedFiles'[ops[o].key].held /\ lockedFiles'[ops[o].key].owner = o)
          /\ ops'[o].kind = "purge" =>
                /\ ops'[o].out # "err"
                /\ ops'[o].pc = "done" => ops'[o].calls = 1]_vars

PurgeNeverFailsWitness ==
    /\ seed = "none"
    /\ \A o \in 1..2 : ops[o].kind = "purge" /\ ops[o].out = "ok" /\ ops[o].calls = 1
    /\ ~lockedFiles["ka"].held
    /\ last = [NoCall EXCEPT !.via = "purge"]


\* get's callback runs for operation o in this step
ResponseStep(o) == ops[o].pc = "connecting" /\ ops'[o].pc # "connecting"

\* the error operation o is about to be handed, when it is its first
FirstError(o) == Head(ops[o].pend)

\* C17: a response with a status other than 200 fails the fetch with err.code
\* equal to the status and message 'Upstream {url} failed: status code N'; the
\* request is aborted and no body is written to the cache.
StatusRejected ==
    [][\A o \in OpIds :
          LET k == ops[o].key
              n == ops'[o].res.status
          IN  /\ (ResponseStep(o) /\ n \notin {0, 200}) =>
                    /\ ops'[o].pc = "failed"
                    /\ ops'[o].ws = "none"
                    /\ ops'[o].pend = <<[code |-> n, msg |-> <<"status code", ToString(n)>>]>>
                    /\ files' = files /\ parts' = parts
              /\ (FirstErrorStep(o) /\ ops[o].res.status \notin {0, 200}) =>
                    /\ last'.err
                    /\ last'.code = ops[o].res.status
                    /\ last'.msg = <<"Upstream", k, "failed:", "status code",
                                     ToString(ops[o].res.status)>>
                    /\ files' = files
                    /\ ops'[o].pc = "failed" /\ ops'[o].ws = "none"
              /\ (ops[o].pc = "failed" /\ ops[o].ws = "none") => ops'[o].pc = "failed"]_vars

StatusRejectedWitness ==
    /\ last.err
    /\ last.code = 500
    /\ last.msg = <<"Upstream", "ka", "failed:", "status code", "500">>
    /\ ops[1].out = "err"

\* the message of the call names an unsupported media type
IsMediaMessage(msg) == Len(msg) >= 4 /\ msg[4] = "unsupported media-type"

\* C18: a 200 response is rejected with err.code 415 and message
\* 'Upstream {url} failed: unsupported media-type X' if and only if mediaTypes
\* is non-empty and the Content-Type X is not a member of it; with an empty
\* mediaTypes no response is rejected for its content type.
MediaTypeRejected ==
    [][\A o \in OpIds :
          LET k == ops[o].key
              x == ops'[o].res.ctype
              foreign == MediaTypes # {} /\ x \notin MediaTypes
          IN  /\ (ResponseStep(o) /\ ops'[o].res.status = 200) =>
                    /\ foreign <=> ops'[o].pc = "failed"
                    /\ ~foreign => ops'[o].pc = "streaming"
                    /\ foreign =>
                          /\ ops'[o].pend = <<[code |-> 415,
                                               msg |-> <<"unsupported media-type", x>>]>>
                          /\ ops'[o].ws = "none"
                          /\ files' = files /\ parts' = parts
              /\ (FirstErrorStep(o) /\ ops[o].res.status = 200 /\ FirstError(o).code = 415) =>
                    /\ last'.code = 415
                    /\ last'.msg = <<"Upstream", k, "failed:", "unsupported media-type",
                                     ops[o].res.ctype>>
                    /\ ops[o].res.ctype \notin MediaTypes
              /\ MediaTypes = {} => ~IsMediaMessage(last'.msg)]_vars

MediaTypeRejectedWitness ==
    /\ MediaTypes = {"image/png"}
    /\ last.code = 415
    /\ last.msg = <<"Upstream", "ka", "failed:", "unsupported media-type", "text/html">>
    /\ \E o \in OpIds : ops[o].pc = "streaming" /\ ops[o].res.ctype = "image/png"

\* the code the claim gives for an underlying error code
ExpectedTransportCode(e) ==
    IF e = "ECONNREFUSED" \/ e = "ETIMEDOUT" \/ e = "ESOCKETTIMEDOUT" THEN 504 ELSE 502

\* C19: when no response is obtained the fetch fails with code 504 if the
\* underlying error code is ECONNREFUSED, ETIMEDOUT or ESOCKETTIMEDOUT and with
\* 502 for every other underlying error (one without a code included), with
\* message 'Upstream {url} failed: {underlying message}'.
TransportErrorCodes ==
    [][\A o \in OpIds :
          LET k == ops[o].key
          IN  /\ (ResponseStep(o) /\ ops'[o].res = NoRes) =>
                    /\ ops'[o].pc = "failed"
                    /\ \E e \in TransportErrors :
                          ops'[o].pend = <<[code |-> ExpectedTransportCode(e),
                                            msg |-> <<"message of", e>>]>>
              /\ (FirstErrorStep(o) /\ ops[o].res = NoRes) =>
                    \E e \in TransportErrors :
                        /\ FirstError(o).msg = <<"message of", e>>
                        /\ last'.code = ExpectedTransportCode(e)
                        /\ last'.msg = <<"Upstream", k, "failed:", "message of", e>>]_vars

TransportErrorCodesWitness ==
    /\ last.code = 502
    /\ last.msg = <<"Upstream", "ka", "failed:", "message of", "nocode">>
    /\ ops[1].out = "err"
    /\ upstream["ka"] = 1

\* the message of the call names a response timeout
IsTimeoutMessage(msg) == Len(msg) >= 4 /\ msg[4] = "response timeout of"

\* C20: with responseTimeout > 0, a body that has not ended responseTimeout ms
\* after the validated headers aborts the request and fails the fetch with code
\* 504 and message 'Upstream {url} failed: response timeout of Nms'; with
\* responseTimeout = 0 no timer is armed and no fetch fails with this error.
ResponseTimeoutFails ==
    [][\A o \in OpIds :
          LET k == ops[o].key
          IN  /\ (ResponseStep(o) /\ ops'[o].pc = "streaming") =>
                    ops'[o].timer = (IF responseTimeout > 0 THEN now + responseTimeout ELSE 0)
              /\ (ops[o].pc # "aborted" /\ ops'[o].pc = "aborted") =>
                    /\ responseTimeout > 0
                    /\ ops[o].pc = "streaming"
                    /\ ops[o].timer > 0 /\ now >= ops[o].timer
                    /\ ops[o].calls = 0
                    /\ ops'[o].pend = <<[code |-> 504,
                                         msg |-> <<"response timeout of",
                                                   ToString(responseTimeout), "ms">>]>>
              /\ (FirstErrorStep(o) /\ ops[o].pc = "aborted") =>
                    /\ last'.code = 504
                    /\ last'.msg = <<"Upstream", k, "failed:", "response timeout of",
                                     ToString(responseTimeout), "ms">>
              /\ responseTimeout = 0 =>
                    /\ ops'[o].timer = 0
                    /\ ops'[o].pc # "aborted"
                    /\ ~IsTimeoutMessage(last'.msg)]_vars

ResponseTimeoutFailsWitness ==
    /\ responseTimeout = TickMs
    /\ last.code = 504
    /\ last.msg = <<"Upstream", "ka", "failed:", "response timeout of", ToString(TickMs), "ms">>
    /\ ops[1].out = "err"


\* the numeric codes of the error taxonomy: an upstream status, 415, 502, 504
Taxonomy == (Statuses \ {200}) \cup {415, 502, 504}

\* C21: every failed fetch delivers an error that carries one numeric code of
\* the taxonomy (the upstream status, 415, 502 or 504) and no filename, atime
\* or mtime, on every failure path (response-stream error, rename failure and
\* utimes failure included).
FailureCarriesCode ==
    last.err =>
        /\ last.code \in Taxonomy
        /\ last.filename = "none" /\ last.atime = 0 /\ last.mtime = 0


\* operation o's fs.rename puts its .part file at the canonical path in this step
RenameStep(o) == ops[o].pc = "renaming" /\ ops'[o].pc = "utimes"

\* C22: atomic publication: the canonical path never holds a part of a body;
\* the body reaches it by rename only, after the write stream closed on a fully
\* received body, never after an aborted, errored or timed-out response, and
\* the renamed file holds the complete response body.
AtomicPublication ==
    [][/\ \A k \in Keys : files'[k].exists => files'[k].body # "partial"
       /\ \A k \in Keys : files'[k].body # files[k].body =>
             \E o \in OpIds : ops[o].key = k /\ (RenameStep(o) \/ ops[o].pc = "unlinking")
       /\ \A o \in OpIds :
             RenameStep(o) =>
                 /\ ops[o].calls = 0 /\ ops[o].pend = <<>>
                 /\ ops[o].body \in {"full", "empty"}
                 /\ files'[ops[o].key].body = ops[o].body]_vars


\* the purger's fs.unlink of operation o completes in this step
PurgerUnlinkStep(o) ==
    ops[o].kind = "purger" /\ ops[o].pc = "unlinking" /\ ops'[o].pc = "done"

\* C23: the purger never removes an entry that is still fresh: when it unlinks
\* a path the file there has its mtime (expiry) in the past, also when a fetch
\* refreshed the path between the purger's scan and its unlink.
PurgerRemovesOnlyStale ==
    [][\A o \in OpIds :
          (PurgerUnlinkStep(o) /\ files[ops[o].key].exists) =>
              files[ops[o].key].mtime <= now]_vars


\* C24: the constructor throws if and only if the cache directory is not
\* readable and writable after the create-if-missing step, and no operation
\* exists without an instance; every later failure of fetch or purge (probe,
\* upstream, stream, file-write and finalization errors) reaches the
\* operation's callback and none is thrown as an exception.
OnlyConstructorThrows ==
    /\ directory.threw <=> directory.after # "rw"
    /\ directory.threw => \A o \in OpIds : ops[o].pc = "idle"
    /\ "thrown" \notin history


\* operation o is logically active on its key: its proceed has been invoked
\* and it has not yet called unlock
ActiveHolder(o) ==
    /\ ops[o].kind # "none"
    /\ ops[o].pc \notin {"idle", "queued", "done"}
    /\ ops[o].calls = 0

\* C25: lock-table invariant: a key is present in the lock table if and only
\* if exactly one caller is its logically active holder (its proceed has been
\* invoked and it has not yet called unlock).
LockTableInvariant ==
    \A k \in Keys :
        lockedFiles[k].held <=>
            Cardinality({o \in OpIds : ops[o].key = k /\ ActiveHolder(o)}) = 1


\* sequence s is an initial part of sequence t
IsPrefix(s, t) == Len(s) <= Len(t) /\ \A i \in 1..Len(s) : s[i] = t[i]

\* caller a unlocks its key in this step
UnlockStep(a) == ops[a].pc = "holding" /\ ops'[a].pc = "done"

\* C26: waiters on one key are granted the lock in exactly the order of their
\* lock(k) calls (no call overtakes a caller already waiting), and unlock(k)
\* with a non-empty queue hands ownership to the head of the queue and keeps
\* the table entry.
FifoGrant ==
    [][/\ \A k \in Keys : IsPrefix(grantOrder'[k], lockOrder'[k])
       /\ \A a \in OpIds :
             LET k == ops[a].key
                 q == lockedFiles[k].onRelease
             IN  (UnlockStep(a) /\ lockedFiles[k].held /\ q # <<>>) =>
                     /\ lockedFiles'[k].held
                     /\ lockedFiles'[k].owner = Head(q)
                     /\ lockedFiles'[k].onRelease = Tail(q)
                     /\ ops'[Head(q)].pc = "holding"
                     /\ grantOrder'[k] = Append(grantOrder[k], Head(q))
       /\ \A a \in OpIds, k \in Keys :
             (ops[a].pc = "idle" /\ ops'[a].pc # "idle" /\ ops'[a].key = k
                 /\ lockedFiles[k].onRelease # <<>>) =>
                     ops'[a].pc = "queued"]_vars

FifoGrantWitness ==
    /\ lockOrder["ka"] = <<3, 1, 2>>
    /\ grantOrder["ka"] = <<3, 1>>
    /\ ops[3].pc = "done"
    /\ ops[1].pc = "holding"
    /\ lockedFiles["ka"].onRelease = <<2>>
    /\ "stray" \notin history

\* every caller whose proceed was invoked has called unlock, once
Balanced == "stray" \notin history /\ \A a \in OpIds : ops[a].pc # "holding"

\* how often caller a occurs in sequence s
Occurrences(s, a) == Cardinality({i \in 1..Len(s) : s[i] = a})

\* C27: after a sequence of lock(k)/unlock(k) calls in which every caller
\* whose proceed was invoked calls unlock(k) exactly once, every proceed
\* passed to lock(k) has been invoked exactly once and the lock table has no
\* entry for k.
BalancedLeavesNoEntry ==
    Balanced =>
        \A k \in Keys :
            /\ ~lockedFiles[k].held
            /\ lockedFiles[k] = NoLock
            /\ \A i \in 1..Len(lockOrder[k]) : Occurrences(grantOrder[k], lockOrder[k][i]) = 1
            /\ \A a \in OpIds : ops[a].pc # "queued"

BalancedLeavesNoEntryWitness ==
    /\ Balanced
    /\ Len(lockOrder["ka"]) = 3
    /\ grantOrder["ka"] = lockOrder["ka"]
    /\ \A a \in OpIds : ops[a].pc = "done"
    /\ lockedFiles["ka"] = NoLock


\* C28: the probe reports a hit if and only if the path exists, is a regular
\* file, has size > 0 and has mtime strictly greater than now; in every other
\* case (missing, not regular, size zero, mtime equal to now or in the past)
\* it reports a miss.
HitIffValid ==
    pOut \in {"hit", "miss"} =>
        (pOut = "hit" <=> /\ pStat.err = "none"
                          /\ pStat.isFile
                          /\ pStat.size > 0
                          /\ pStat.mtime > now)

HitIffValidWitness ==
    /\ pOut = "miss"
    /\ pStat.err = "none" /\ pStat.isFile /\ pStat.size > 0
    /\ pStat.mtime = now


\* the probe of operation o completes in this step
ProbeEnds(o) == ops[o].pc = "stat" /\ ops'[o].pc # "stat"

\* the waiter whose proceed ran at the holder's failure finds no valid entry
\* (the holder's own probe having met no stat error)
MissAfterFailure(w) ==
    (ProbeEnds(w) /\ ops[w].after = "err" /\ "staterror" \notin history) =>
        ops'[w].pc \in {"mkdir", "connecting"}

\* a miss issues one upstream request of the fetch's own
MissGoesUpstream(w) ==
    /\ ops[w].pc = "mkdir" => ops'[w].pc \in {"mkdir", "connecting"}
    /\ (ops[w].pc \in {"stat", "mkdir"} /\ ops'[w].pc = "connecting") =>
          upstream'[ops[w].key] = upstream[ops[w].key] + 1

\* the error a fetch is handed is the one its own request ended with
OwnError(w) ==
    FirstErrorStep(w) =>
        /\ last'.err
        /\ last'.code = Head(ops[w].pend).code
        /\ last'.msg = <<"Upstream", ops[w].key, "failed:">> \o Head(ops[w].pend).msg

\* C29: no negative caching: when the lock holder's upstream fetch fails, the
\* next waiter on the key observes a miss on its probe and issues its own
\* upstream request, and each caller receives the error of its own request.
NoNegativeCaching ==
    [][\A w \in OpIds : MissAfterFailure(w) /\ MissGoesUpstream(w) /\ OwnError(w)]_vars

\* the last two conjuncts on their own
UpstreamOfItsOwn == [][\A w \in OpIds : MissGoesUpstream(w) /\ OwnError(w)]_vars


\* C30: a stat or mkdir error during the probe is never delivered to the
\* caller: the probe ends in a hit or a miss, after a stat error and after
\* mkdir's callback the fetch issues its upstream request, and a fetch is
\* handed an error only after it went upstream.
ProbeErrorsAreMisses ==
    [][\A o \in OpIds :
          LET k == ops[o].key
          IN  /\ (ops[o].kind = "fetch" /\ ops[o].pc \in {"stat", "mkdir"}) =>
                    /\ ops'[o].pc \in {"stat", "mkdir", "connecting", "done"}
                    /\ ops'[o].out # "err"
                    /\ ops'[o].pc # "done" => ops'[o].calls = ops[o].calls
                    /\ ops'[o].pc \in {"mkdir", "connecting"} \ {ops[o].pc} => last' = last
                    /\ ops'[o].pc = "done" => ~last'.err
              /\ (ProbeEnds(o) /\ "staterror" \in history' \ history) =>
                    /\ ops'[o].pc = "connecting"
                    /\ upstream'[k] = upstream[k] + 1
              /\ (ops[o].pc = "mkdir" /\ ops'[o].pc # "mkdir") =>
                    /\ ops'[o].pc = "connecting"
                    /\ upstream'[k] = upstream[k] + 1
              /\ FirstErrorStep(o) =>
                    ops[o].pc \notin {"idle", "queued", "stat", "mkdir", "connecting"}]_vars

ProbeErrorsAreMissesWitness ==
    /\ "staterror" \in history
    /\ seed = "fresh"
    /\ ops[1].kind = "fetch" /\ ops[1].out = "err" /\ ops[1].calls = 1
    /\ upstream["ka"] = 1
    /\ last.err /\ last.code = 404


\* C31: the purger unlinks a path only while it holds the lock of that path,
\* under the key fetch and purge use for it: while a purger's fs.unlink is
\* pending the purger is the holder of the path's key and no fetch or purge
\* of the path is active, and the step that completes the unlink is the one
\* that releases the lock.
PurgerUnlinksUnderLock ==
    /\ \A o \in OpIds :
          (ops[o].kind \in {"purger", "chunk"} /\ ops[o].pc = "unlinking") =>
              /\ lockedFiles[ops[o].key].held
              /\ lockedFiles[ops[o].key].owner = o
              /\ \A p \in OpIds \ {o} : ~(ops[p].key = ops[o].key /\ ActiveHolder(p))


\* the write stream of operation o emits 'error' in this step
WriteErrorStep(o) == ops[o].ws # "error" /\ ops'[o].ws = "error"

\* C32: an open or write failure of the write stream to {filename}.part
\* cancels the fetch: the error is not thrown, the fetch takes its failure
\* path (the cleanup unlink of the .part and done(err) are submitted) and does
\* not go on to the rename, and once it is settled its callback has received
\* an error, no .part is left and it no longer holds the lock.
WriteErrorCancelsFetch ==
    [][\A o \in OpIds :
          /\ WriteErrorStep(o) =>
                /\ "thrown" \notin history'
                /\ ops'[o].pc = "failed"
                /\ Len(ops'[o].pend) = Len(ops[o].pend) + 1
          /\ (ops'[o].ws = "error" /\ ops'[o].pc \in {"done", "failed"}
                                   /\ ops'[o].pend = <<>>) =>
                /\ ops'[o].out = "err"
                /\ ~parts'[ops[o].key].exists
                /\ ~(lockedFiles'[ops[o].key].held /\ lockedFiles'[ops[o].key].owner = o)]_vars


\* the response recorded with an operation fails the validation of its headers
Rejected(res) == res.status # 200 \/ ~Accepted(res.ctype)

\* get's callback hands operation o a response in this step
HeadersStep(o) == ResponseStep(o) /\ ops'[o].res # NoRes

\* C33: validation precedes streaming: the status is checked before the media
\* type, so a non-200 response fails with its status code whatever its
\* Content-Type and a 200 with a foreign Content-Type fails with 415; a fetch
\* whose response failed either check has no response timer armed and no
\* write stream to {filename}.part, then and later, and an accepted response
\* arms the timer and opens the stream in the step of its validation.
ValidationPrecedesStreaming ==
    [][\A o \in OpIds :
          LET res == ops'[o].res
          IN  /\ HeadersStep(o) =>
                    /\ Rejected(res) <=> ops'[o].pc = "failed"
                    /\ Rejected(res) =>
                          /\ Len(ops'[o].pend) = 1
                          /\ ops'[o].pend[1].code = IF res.status # 200 THEN res.status ELSE 415
                          /\ ops'[o].timer = 0
                          /\ ops'[o].ws = "none"
                          /\ parts' = parts
                    /\ ~Rejected(res) =>
                          /\ ops'[o].pc = "streaming"
                          /\ ops'[o].timer = ArmTimer(now, responseTimeout)
                          /\ ops'[o].ws = "opening"
              /\ (ops[o].res # NoRes /\ Rejected(ops[o].res)) =>
                    /\ ops'[o].timer = 0
                    /\ ops'[o].ws = "none"
                    /\ ops'[o].pc \notin {"streaming", "aborted", "ended", "renaming", "utimes"}]_vars

ValidationPrecedesStreamingWitness ==
    /\ filterMedia /\ responseTimeout > 0
    /\ ops[1].res = [status |-> 404, ctype |-> "text/html"]
    /\ ops[1].pc = "failed"
    /\ ops[1].pend = <<[code |-> 404, msg |-> <<"status code", "404">>]>>
    /\ ops[1].timer = 0 /\ ops[1].ws = "none"


\* the response timer of operation o fires in this step: the 504 is handed to onError
TimerFireStep(o) ==
    /\ Len(ops'[o].pend) = Len(ops[o].pend) + 1
    /\ IsTimeoutMessage(Prefixed(ops[o].key, ops'[o].pend[Len(ops'[o].pend)].msg))

\* C34: the response timer is disarmed when the body ends or errors: the step
\* of res 'end' or res 'error' leaves no timer armed; no timer is armed while
\* the write stream closes, during rename and utimes, or after the fetch's
\* callback was invoked; and the timer fires only for a fetch whose body is
\* still streaming and whose callback has not been invoked.
TimerDisarmedAtEnd ==
    [][\A o \in OpIds :
          /\ (ops[o].pc = "streaming" /\ ops'[o].pc \in {"ended", "failed"}) =>
                ops'[o].timer = 0
          /\ (ops'[o].pc \in {"ended", "renaming", "utimes", "failed", "done"}
                \/ ops'[o].calls > 0) => ops'[o].timer = 0
          /\ TimerFireStep(o) =>
                /\ ops[o].pc = "streaming"
                /\ ops[o].calls = 0
                /\ ops[o].timer > 0 /\ now >= ops[o].timer]_vars

TimerDisarmedAtEndWitness ==
    /\ responseTimeout = TickMs
    /\ "failure" \notin history
    /\ ops[1].pc = "utimes" /\ ops[1].timer = 0
    /\ files["ka"].atime = StartMs
    /\ ops[1].atime = StartMs + responseTimeout


\* operation o was issued and its caller has not been called back
Outstanding(o) == ops[o].kind \in {"fetch", "purge"} /\ ops[o].calls = 0

\* operation o no longer holds or awaits the lock of its key
Released(o) ==
    /\ ops[o].pc # "queued"
    /\ ~(lockedFiles[ops[o].key].held /\ lockedFiles[ops[o].key].owner = o)

\* C35: with responseTimeout > 0 and filesystem operations that complete,
\* every fetch or purge that was issued, whether it was granted the lock at
\* once or queued behind others of its key, is eventually called back and
\* has released the lock: no holder keeps the key for ever and no waiter is
\* starved.
EveryOperationCompletes ==
    \A o \in OpIds : Outstanding(o) ~> (ops[o].calls > 0 /\ Released(o))


\* C36: on every completion path of fetch the lock is released before the
\* caller's callback is invoked: whenever a fetch's callback has been invoked
\* the fetch no longer holds the lock of its key, also when the callback
\* throws, so a throwing callback leaves no key locked.
ReleasedBeforeCallback ==
    [][\A o \in OpIds :
          (ops[o].kind = "fetch" /\ ops'[o].calls > ops[o].calls) =>
              ~(lockedFiles'[ops[o].key].held /\ lockedFiles'[ops[o].key].owner = o)]_vars


\* C37: callbacks of operations on one key are delivered in the order the
\* operations were issued (operations are numbered in the order of their
\* calls): when the callback of a fetch or purge has been invoked, so has the
\* callback of every fetch or purge of the same key issued before it.
CallbacksInIssueOrder ==
    \A a \in OpIds, b \in OpIds :
        ( /\ a < b
          /\ ops[a].kind \in {"fetch", "purge"}
          /\ ops[b].kind \in {"fetch", "purge"}
          /\ ops[a].key = ops[b].key
          /\ ops[b].calls > 0 ) => ops[a].calls > 0


\* nothing that belongs to key k changes in this step: its lock entry and
\* waiter queue, its files, its upstream requests and its operations
KeyUntouched(k) ==
    /\ lockedFiles'[k] = lockedFiles[k]
    /\ files'[k] = files[k]
    /\ parts'[k] = parts[k]
    /\ upstream'[k] = upstream[k]
    /\ \A o \in OpIds : ops[o].key = k => ops'[o] = ops[o]

\* C38: keys are independent: every step of the library, the lock and unlock
\* calls in it included, leaves the table entry, the waiter queue and the
\* operations of every key but one untouched, and an operation is made to
\* wait exactly when its own key is locked, whatever is held, slow or failing
\* on another key.
KeysIndependent ==
    [][/\ \E k \in Keys : \A k2 \in Keys \ {k} : KeyUntouched(k2)
       /\ \A o \in OpIds :
            (ops[o].pc = "idle" /\ ops'[o].pc # "idle") =>
                /\ \A k2 \in Keys \ {ops'[o].key} : KeyUntouched(k2)
                /\ ops'[o].pc = "queued" <=> lockedFiles[ops'[o].key].held]_vars

KeysIndependentWitness ==
    /\ ops[1].kind = "fetch" /\ ops[1].key = "ka" /\ ops[1].pc = "connecting"
    /\ lockedFiles["ka"].held /\ lockedFiles["ka"].owner = 1
    /\ ops[2].kind = "fetch" /\ ops[2].key = "kb" /\ ops[2].out = "ok"
    /\ last.via = "upstream" /\ last.filename = "kb"
    /\ ~lockedFiles["kb"].held


\* operation o is a fetch in mid-course: its proceed ran and its callback has
\* not been invoked
MidFetch(o) ==
    ops[o].kind = "fetch" /\ ops[o].calls = 0 /\ ops[o].pc \notin {"idle", "queued", "done"}

\* C39: purge and fetch of one URL are serialized by the lock: a purge issued
\* while the key is held waits; while a purge's fs.unlink is pending, and in
\* the step that completes it, no fetch of the URL is in mid-course, so the
\* purge removes no canonical file and disturbs no .part of a fetch under
\* way; and a fetch whose proceed ran at a purge's unlock observes a miss and
\* issues an upstream request.
PurgeFetchSerialized ==
    [][\A o \in OpIds :
          LET k == ops[o].key
          IN  /\ (ops[o].pc = "idle" /\ ops'[o].kind = "purge" /\ lockedFiles[ops'[o].key].held) =>
                    ops'[o].pc = "queued"
              /\ (ops[o].kind = "purge" /\ ops[o].pc = "unlinking") =>
                    /\ \A f \in OpIds : ops[f].key = k => ~MidFetch(f)
                    /\ ops'[o].pc = "done" => parts' = parts
              /\ (ProbeEnds(o) /\ ops[o].after = "purge") =>
                    /\ ops'[o].pc \in {"mkdir", "connecting"}
                    /\ ~files[k].exists
              /\ (ops[o].after = "purge" /\ ops[o].pc \in {"stat", "mkdir"}
                    /\ ops'[o].pc = "connecting") =>
                    upstream'[k] = upstream[k] + 1]_vars

====
